---- MODULE Spec2Model ----
(***************************************************************************)
(* Model of the graphrepresentations crate: the edge-list graph            *)
(* (SimpleGraph), the adjacency array (AdjacencyArray) and the conversion  *)
(* convert_from between them.                                              *)
(*                                                                         *)
(* Ids are unsigned integers 0 .. id_invalid, id_invalid being             *)
(* IdType::max_value().  A Rust Vec index i is position i + 1 of the       *)
(* TLA+ sequence that models the Vec.                                      *)
(***************************************************************************)
EXTENDS Integers, Sequences, FiniteSets, TLC

VARIABLES
    nodes,            \* SimpleGraph.nodes: the payload of each Node, by id
    edges,            \* SimpleGraph.edges: [start, end, data] of each Edge, by id
    adjacency_array,  \* <<>> before a conversion, else <<the AdjacencyArray>>
    ret,              \* what the last call returned, or the panic it raised
    id_invalid,       \* IdType::max_value() of the build
    overflow_checks,  \* TRUE: integer overflow panics; FALSE: it wraps
    conversion        \* the locals of a convert_from call that is under way

vars == <<nodes, edges, adjacency_array, ret, id_invalid, overflow_checks,
          conversion>>

----------------------------------------------------------------------------
(* Bounds of the model. *)

\* IdType is modelled IdBits wide
IdBits == 4
\* add_node and add_edge add to the graph while it holds fewer than MaxSize
\* nodes and edges together
MaxSize == 4

\* payloads the caller passes to Node::new
NodeData == {4, 5}
\* payloads the caller passes to Edge::new
EdgeData == {1, 2}
\* E::default(), which convert_from fills edge_data with before the scatter pass
EdgeDataDefault == 0

----------------------------------------------------------------------------
(* Results of calls. *)

Ok(v) == [kind |-> "ok", val |-> v]
Err(e) == [kind |-> "err", val |-> e]
Panic(msg) == [kind |-> "panic", val |-> msg]
NoCall == [op |-> "new", res |-> Ok(<<>>)]

IsOk(r) == r.kind = "ok"
IsPanic(r) == r.kind = "panic"
Panicked == IsPanic(ret.res)

----------------------------------------------------------------------------
(* lib.rs: identifiers *)

IdTypeMax == 2 ^ IdBits - 1

\* NodeId::is_valid, EdgeId::is_valid
is_valid(id) == id >= 0 /\ id # id_invalid

\* NodeId::new, EdgeId::new: assert_ne!(result, Self::invalid(), msg)
IdNew(id, msg) == IF id # id_invalid THEN Ok(id) ELSE Panic(msg)

\* usize -> IdType by try_into: fails when the value exceeds IdType::max_value()
FitsIdType(n) == n <= id_invalid

\* IdType addition: panics on overflow when overflow checks are compiled in,
\* wraps otherwise
IdAdd(a, b) ==
    IF a + b <= id_invalid THEN Ok(a + b)
    ELSE IF overflow_checks THEN Panic("attempt to add with overflow")
    ELSE Ok((a + b) % (id_invalid + 1))

----------------------------------------------------------------------------
(* simplegraph/mod.rs: Graph for SimpleGraph *)

SimpleGraph_node_len == Len(nodes)
SimpleGraph_edge_len == Len(edges)

\* is_node_id_valid that accepts the id node_len
SimpleGraph_is_node_id_valid_Inclusive(id) ==
    is_valid(id) /\ id <= SimpleGraph_node_len

SimpleGraph_is_node_id_valid(id) == is_valid(id) /\ id < SimpleGraph_node_len
SimpleGraph_is_edge_id_valid(id) == is_valid(id) /\ id < SimpleGraph_edge_len

\* ids 0 .. len - 1 in ascending order
SimpleGraph_node_id_iter == [i \in 1..SimpleGraph_node_len |-> i - 1]
SimpleGraph_edge_id_iter == [i \in 1..SimpleGraph_edge_len |-> i - 1]

SimpleGraph_node_data(id) ==
    IF ~SimpleGraph_is_node_id_valid(id)
    THEN Panic("assertion failed: self.is_node_id_valid(id)")
    ELSE IF ~(id < Len(nodes)) THEN Panic("index out of bounds")
    ELSE Ok(nodes[id + 1])

SimpleGraph_edge_data(id) ==
    IF ~SimpleGraph_is_edge_id_valid(id)
    THEN Panic("assertion failed: self.is_edge_id_valid(id)")
    ELSE IF ~(id < Len(edges)) THEN Panic("index out of bounds")
    ELSE Ok(edges[id + 1].data)

SimpleGraph_edge(id) ==
    IF ~SimpleGraph_is_edge_id_valid(id)
    THEN Panic("assertion failed: self.is_edge_id_valid(id)")
    ELSE IF ~(id < Len(edges)) THEN Panic("index out of bounds")
    ELSE Ok(edges[id + 1])

SimpleGraph_edge_start(id) ==
    IF ~SimpleGraph_is_edge_id_valid(id)
    THEN Panic("assertion failed: self.is_edge_id_valid(id)")
    ELSE IF ~(id < Len(edges)) THEN Panic("index out of bounds")
    ELSE Ok(edges[id + 1].start)

SimpleGraph_edge_end(id) ==
    IF ~SimpleGraph_is_edge_id_valid(id)
    THEN Panic("assertion failed: self.is_edge_id_valid(id)")
    ELSE IF ~(id < Len(edges)) THEN Panic("index out of bounds")
    ELSE Ok(edges[id + 1].end)

----------------------------------------------------------------------------
(* simplegraph/mod.rs: MutableGraph for SimpleGraph *)

\* add_edge_result that does not check the end node
add_edge_result_NoEndCheck(start, end) ==
    IF ~is_valid(start) \/ start >= SimpleGraph_node_len
    THEN Err("StartNodeDoesNotExist")
    ELSE IF ~FitsIdType(Len(edges))
    THEN Panic("Edge id out of bounds")
    ELSE IdNew(Len(edges), "Edge id out of bounds")

\* add_edge_result that looks at the end node before the start node
add_edge_result_EndFirst(start, end) ==
    IF ~is_valid(end) \/ end >= SimpleGraph_node_len
    THEN Err("EndNodeDoesNotExist")
    ELSE IF ~is_valid(start) \/ start >= SimpleGraph_node_len
    THEN Err("StartNodeDoesNotExist")
    ELSE IdNew(Len(edges), "Edge id out of bounds")

\* the Result add_edge returns for an edge from start to end
add_edge_result(start, end) ==
    IF ~is_valid(start) \/ start >= SimpleGraph_node_len
    THEN Err("StartNodeDoesNotExist")
    ELSE IF ~is_valid(end) \/ end >= SimpleGraph_node_len
    THEN Err("EndNodeDoesNotExist")
    ELSE IF ~FitsIdType(Len(edges))
    THEN Panic("Edge id out of bounds")
    ELSE IdNew(Len(edges), "Edge id out of bounds")

\* add_node_result that returns the length after the push
add_node_result_LenAfterPush == IdNew(Len(nodes) + 1, "Node id out of bounds")

\* the NodeId add_node returns: the index of the pushed node
add_node_result ==
    IF ~FitsIdType(Len(nodes))
    THEN Panic("Node id out of bounds")
    ELSE IdNew(Len(nodes), "Node id out of bounds")

----------------------------------------------------------------------------
(* util.rs: PrefixSum<EdgeId> for Vec<EdgeId> *)

\* one iteration of the loop over iter_mut(), at index i; st is
\* [items, accumulator, panic], panic = "" while the loop has not panicked
PrefixSumStep(st, i) ==
    IF st.panic # "" THEN st
    ELSE LET value == st.items[i + 1]
             item == IdAdd(value, st.accumulator)
             acc == IdAdd(st.accumulator, value)
         IN  IF IsPanic(item) THEN [st EXCEPT !.panic = item.val]
             ELSE IF IsPanic(acc)
             THEN [st EXCEPT !.items[i + 1] = item.val, !.panic = acc.val]
             ELSE [st EXCEPT !.items[i + 1] = item.val, !.accumulator = acc.val]

RECURSIVE PrefixSumFrom(_, _)
PrefixSumFrom(st, i) ==
    IF i >= Len(st.items) THEN st ELSE PrefixSumFrom(PrefixSumStep(st, i), i + 1)

\* prefix_sum: [items |-> the vector afterwards, res |-> the EdgeId returned or
\* the panic]
prefix_sum(items) ==
    LET st == PrefixSumFrom([items |-> items, accumulator |-> 0, panic |-> ""], 0)
    IN  [items |-> st.items,
         res |-> IF st.panic # "" THEN Panic(st.panic)
                 ELSE IdNew(st.accumulator, "Edge id out of bounds")]

----------------------------------------------------------------------------
(* adjacencyarray/mod.rs: convert_from, with the SimpleGraph as source *)

\* ConvertAlloc that collects node_data in descending id order
ConvertAlloc_NodeDataReversed ==
    [first_out |-> [i \in 1..(SimpleGraph_node_len + 2) |-> 0],
     edge_ends |-> [i \in 1..SimpleGraph_edge_len |-> id_invalid],
     node_data |-> [i \in 1..SimpleGraph_node_len |->
                        SimpleGraph_node_data(SimpleGraph_node_len - i).val],
     edge_data |-> [i \in 1..SimpleGraph_edge_len |-> EdgeDataDefault],
     panic |-> ""]

\* ConvertAlloc that allocates node_len + 1 counters
ConvertAlloc_ShortCounts ==
    [first_out |-> [i \in 1..(SimpleGraph_node_len + 1) |-> 0],
     edge_ends |-> [i \in 1..SimpleGraph_edge_len |-> id_invalid],
     node_data |-> [i \in 1..SimpleGraph_node_len |->
                        SimpleGraph_node_data(SimpleGraph_node_id_iter[i]).val],
     edge_data |-> [i \in 1..SimpleGraph_edge_len |-> EdgeDataDefault],
     panic |-> ""]

\* the vectors allocated before the first loop; c.panic = "" while no panic
ConvertAlloc ==
    [first_out |-> [i \in 1..(SimpleGraph_node_len + 2) |-> 0],
     edge_ends |-> [i \in 1..SimpleGraph_edge_len |-> id_invalid],
     node_data |-> [i \in 1..SimpleGraph_node_len |->
                        SimpleGraph_node_data(SimpleGraph_node_id_iter[i]).val],
     edge_data |-> [i \in 1..SimpleGraph_edge_len |-> EdgeDataDefault],
     panic |-> IF 0 = id_invalid THEN "Edge id out of bounds" ELSE ""]

\* body of the first loop, for the edge with the given id
CountStep(c, id) ==
    IF c.panic # "" THEN c
    ELSE LET edge == SimpleGraph_edge(id).val
             count_index == IdAdd(edge.start, 2)
         IN  IF IsPanic(count_index) THEN [c EXCEPT !.panic = count_index.val]
             ELSE IF ~(count_index.val < Len(c.first_out))
             THEN [c EXCEPT !.panic = "Count index out of bounds"]
             ELSE LET count == IdAdd(c.first_out[count_index.val + 1], 1)
                  IN  IF IsPanic(count) THEN [c EXCEPT !.panic = count.val]
                      ELSE [c EXCEPT !.first_out[count_index.val + 1] = count.val]

RECURSIVE CountPass(_, _)
CountPass(c, i) ==
    IF i >= SimpleGraph_edge_len THEN c
    ELSE CountPass(CountStep(c, SimpleGraph_edge_id_iter[i + 1]), i + 1)

\* first_out.prefix_sum()
PrefixSumPass(c) ==
    IF c.panic # "" THEN c
    ELSE LET p == prefix_sum(c.first_out)
         IN  IF IsPanic(p.res) THEN [c EXCEPT !.first_out = p.items, !.panic = p.res.val]
             ELSE [c EXCEPT !.first_out = p.items]

\* ScatterStep that writes edge_ends but leaves edge_data as allocated
ScatterStep_NoData(c, id) ==
    IF c.panic # "" THEN c
    ELSE LET edge == SimpleGraph_edge(id).val
             node_index == edge.start + 1
             edge_index == c.first_out[node_index + 1]
         IN  [c EXCEPT !.edge_ends[edge_index + 1] = edge.end,
                       !.first_out[node_index + 1] = edge_index + 1]

\* body of the second loop, for the edge with the given id
ScatterStep(c, id) ==
    IF c.panic # "" THEN c
    ELSE LET edge == SimpleGraph_edge(id).val
             node_index == IdAdd(edge.start, 1)
         IN  IF IsPanic(node_index) THEN [c EXCEPT !.panic = node_index.val]
             ELSE IF ~(node_index.val < Len(c.first_out) - 1)
             THEN [c EXCEPT !.panic = "Lookup index out of bounds"]
             ELSE LET edge_index == c.first_out[node_index.val + 1]
                      cursor == IdAdd(edge_index, 1)
                  IN  IF ~(edge_index < Len(c.edge_ends))
                      THEN [c EXCEPT !.panic = "index out of bounds"]
                      ELSE IF IsPanic(cursor)
                      THEN [c EXCEPT !.edge_ends[edge_index + 1] = edge.end,
                                     !.edge_data[edge_index + 1] = edge.data,
                                     !.panic = cursor.val]
                      ELSE [c EXCEPT !.edge_ends[edge_index + 1] = edge.end,
                                     !.edge_data[edge_index + 1] = edge.data,
                                     !.first_out[node_index.val + 1] = cursor.val]

\* ScatterPass that visits the edges in descending id order
RECURSIVE ScatterPass_Reverse(_, _)
ScatterPass_Reverse(c, i) ==
    IF i >= SimpleGraph_edge_len THEN c
    ELSE ScatterStep(ScatterPass_Reverse(c, i + 1), SimpleGraph_edge_id_iter[i + 1])

RECURSIVE ScatterPass(_, _)
ScatterPass(c, i) ==
    IF i >= SimpleGraph_edge_len THEN c
    ELSE ScatterPass(ScatterStep(c, SimpleGraph_edge_id_iter[i + 1]), i + 1)

\* ConvertFinish without first_out.pop()
ConvertFinish_NoPop(c) ==
    IF c.panic # "" THEN Panic(c.panic)
    ELSE Ok([first_out |-> c.first_out,
             edge_ends |-> c.edge_ends,
             node_data |-> c.node_data,
             edge_data |-> c.edge_data])

\* first_out.pop() and the struct literal
ConvertFinish(c) ==
    IF c.panic # "" THEN Panic(c.panic)
    ELSE Ok([first_out |-> SubSeq(c.first_out, 1, Len(c.first_out) - 1),
             edge_ends |-> c.edge_ends,
             node_data |-> c.node_data,
             edge_data |-> c.edge_data])

\* convert_from(&simple_graph): the AdjacencyArray, or the panic
convert_from ==
    ConvertFinish(ScatterPass(PrefixSumPass(CountPass(ConvertAlloc, 0)), 0))

----------------------------------------------------------------------------
(* adjacencyarray/mod.rs: Graph and ForwardNavigableGraph for AdjacencyArray; *)
(* a is the AdjacencyArray (self)                                             *)

AdjacencyArray_node_len(a) == Len(a.first_out) - 1
AdjacencyArray_edge_len(a) == Len(a.edge_ends)

AdjacencyArray_is_node_id_valid(a, id) ==
    is_valid(id) /\ id < AdjacencyArray_node_len(a)
AdjacencyArray_is_edge_id_valid(a, id) ==
    is_valid(id) /\ id < AdjacencyArray_edge_len(a)

AdjacencyArray_node_id_iter(a) == [i \in 1..AdjacencyArray_node_len(a) |-> i - 1]
AdjacencyArray_edge_id_iter(a) == [i \in 1..AdjacencyArray_edge_len(a) |-> i - 1]

AdjacencyArray_node_data(a, id) ==
    IF ~AdjacencyArray_is_node_id_valid(a, id)
    THEN Panic("assertion failed: self.is_node_id_valid(id)")
    ELSE IF ~(id < Len(a.node_data)) THEN Panic("index out of bounds")
    ELSE Ok(a.node_data[id + 1])

AdjacencyArray_edge_data(a, id) ==
    IF ~AdjacencyArray_is_edge_id_valid(a, id)
    THEN Panic("assertion failed: self.is_edge_id_valid(id)")
    ELSE IF ~(id < Len(a.edge_data)) THEN Panic("index out of bounds")
    ELSE Ok(a.edge_data[id + 1])

\* the binary search of upper_bound over s[base .. base + size - 1] (0-based),
\* size >= 1: the number of leading elements that are <= x
RECURSIVE UpperBoundFrom(_, _, _, _)
UpperBoundFrom(s, x, base, size) ==
    IF size > 1
    THEN LET half == size \div 2
             mid == base + half
         IN  UpperBoundFrom(s, x, IF s[mid + 1] > x THEN base ELSE mid, size - half)
    ELSE base + (IF s[base + 1] > x THEN 0 ELSE 1)

\* first_out.upper_bound(&id): index of the first element greater than x
upper_bound(s, x) == IF Len(s) = 0 THEN 0 ELSE UpperBoundFrom(s, x, 0, Len(s))

\* edge_start that does not subtract one from the upper bound
AdjacencyArray_edge_start_NoMinusOne(a, id) ==
    IF ~AdjacencyArray_is_edge_id_valid(a, id)
    THEN Panic("assertion failed: self.is_edge_id_valid(id)")
    ELSE LET ub == upper_bound(a.first_out, id)
         IN  IF ~FitsIdType(ub) THEN Panic("Node id not compatible with usize")
             ELSE IdNew(ub, "Node id out of bounds")

AdjacencyArray_edge_start(a, id) ==
    IF ~AdjacencyArray_is_edge_id_valid(a, id)
    THEN Panic("assertion failed: self.is_edge_id_valid(id)")
    ELSE LET ub == upper_bound(a.first_out, id)
         IN  IF ub = 0 THEN Panic("attempt to subtract with overflow")
             ELSE IF ~FitsIdType(ub - 1) THEN Panic("Node id not compatible with usize")
             ELSE IdNew(ub - 1, "Node id out of bounds")

AdjacencyArray_edge_end(a, id) ==
    IF ~AdjacencyArray_is_edge_id_valid(a, id)
    THEN Panic("assertion failed: self.is_edge_id_valid(id)")
    ELSE IF ~(id < Len(a.edge_ends)) THEN Panic("index out of bounds")
    ELSE Ok(a.edge_ends[id + 1])

AdjacencyArray_edge(a, id) ==
    IF ~AdjacencyArray_is_edge_id_valid(a, id)
    THEN Panic("assertion failed: self.is_edge_id_valid(id)")
    ELSE LET start == AdjacencyArray_edge_start(a, id)
             end == AdjacencyArray_edge_end(a, id)
             data == AdjacencyArray_edge_data(a, id)
         IN  IF IsPanic(start) THEN start
             ELSE IF IsPanic(end) THEN end
             ELSE IF IsPanic(data) THEN data
             ELSE Ok([start |-> start.val, end |-> end.val, data |-> data.val])

\* out_edges: the edge ids the returned iterator yields, in order
AdjacencyArray_out_edges(a, id) ==
    IF ~AdjacencyArray_is_node_id_valid(a, id)
    THEN Panic("assertion failed: self.is_node_id_valid(id)")
    ELSE IF ~(id + 1 < Len(a.first_out)) THEN Panic("index out of bounds")
    ELSE LET edge_id_offset == a.first_out[id + 1]
             edge_id_limit == a.first_out[id + 2]
         IN  Ok([i \in 1..(edge_id_limit - edge_id_offset) |-> edge_id_offset + i - 1])

----------------------------------------------------------------------------
(* The calls a client makes. A panic ends the program: no call follows it. *)

\* ids a caller may hold: ids that add_node and add_edge return at some time
\* (valid for the graph now, or not yet), and the sentinel
NodeIdArgs == {id \in 0..(MaxSize - 1) : id < id_invalid} \cup {id_invalid}
EdgeIdArgs == {id \in 0..(MaxSize - 1) : id < id_invalid} \cup {id_invalid}

\* no convert_from call is under way
Idle == [pc |-> "idle", i |-> 0, c |-> <<>>, accumulator |-> 0,
         written |-> <<>>, wrapped |-> FALSE]

Size == Len(nodes) + Len(edges)

Init ==
    /\ nodes = <<>>
    /\ edges = <<>>
    /\ adjacency_array = <<>>
    /\ ret = NoCall
    /\ id_invalid = IdTypeMax
    /\ overflow_checks = TRUE
    /\ conversion = Idle

\* add_node on a graph whose nodes the AdjacencyArray shares instead of owning
\* a copy
add_node_Shared(data) ==
    /\ ~Panicked
    /\ Size < MaxSize
    /\ nodes' = Append(nodes, data)
    /\ ret' = [op |-> "add_node", res |-> add_node_result]
    /\ adjacency_array' =
           IF adjacency_array = <<>> THEN adjacency_array
           ELSE <<[adjacency_array[1] EXCEPT !.node_data = Append(@, data)]>>
    /\ UNCHANGED <<edges, id_invalid, overflow_checks, conversion>>

\* simple_graph.add_node(Node::new(data))
add_node(data) ==
    /\ ~Panicked
    /\ Size < MaxSize
    /\ nodes' = Append(nodes, data)
    /\ ret' = [op |-> "add_node", res |-> add_node_result]
    /\ UNCHANGED <<edges, adjacency_array, id_invalid, overflow_checks, conversion>>

\* simple_graph.add_edge(Edge::new(start, end, data))
add_edge(start, end, data) ==
    /\ ~Panicked
    /\ LET res == add_edge_result(start, end)
       IN  /\ res.kind = "err" \/ Size < MaxSize
           /\ edges' = IF res.kind = "err" THEN edges
                       ELSE Append(edges, [start |-> start, end |-> end, data |-> data])
           /\ ret' = [op |-> "add_edge", res |-> res]
    /\ UNCHANGED <<nodes, adjacency_array, id_invalid, overflow_checks, conversion>>

\* adjacency_array = AdjacencyArray::from(&simple_graph)
from ==
    /\ ~Panicked
    /\ LET res == convert_from
       IN  /\ adjacency_array' = IF IsOk(res) THEN <<res.val>> ELSE adjacency_array
           /\ ret' = [op |-> "from", res |-> IF IsOk(res) THEN Ok(<<>>) ELSE res]
    /\ UNCHANGED <<nodes, edges, id_invalid, overflow_checks, conversion>>

\* a call of a &self method: it changes no graph; ret keeps the results of the
\* mutating calls, and records the panic when the method panics
Returns(op, res) ==
    /\ ~Panicked
    /\ ret' = IF IsPanic(res) THEN [op |-> op, res |-> res] ELSE ret
    /\ UNCHANGED <<nodes, edges, adjacency_array, id_invalid, overflow_checks, conversion>>

SimpleGraph_node_data_call(id) ==
    Returns("SimpleGraph::node_data", SimpleGraph_node_data(id))
SimpleGraph_edge_data_call(id) ==
    Returns("SimpleGraph::edge_data", SimpleGraph_edge_data(id))
SimpleGraph_edge_call(id) ==
    Returns("SimpleGraph::edge", SimpleGraph_edge(id))
SimpleGraph_edge_start_call(id) ==
    Returns("SimpleGraph::edge_start", SimpleGraph_edge_start(id))
SimpleGraph_edge_end_call(id) ==
    Returns("SimpleGraph::edge_end", SimpleGraph_edge_end(id))

AdjacencyArray_node_data_call(id) ==
    /\ adjacency_array # <<>>
    /\ Returns("AdjacencyArray::node_data",
               AdjacencyArray_node_data(adjacency_array[1], id))
AdjacencyArray_edge_data_call(id) ==
    /\ adjacency_array # <<>>
    /\ Returns("AdjacencyArray::edge_data",
               AdjacencyArray_edge_data(adjacency_array[1], id))
AdjacencyArray_edge_call(id) ==
    /\ adjacency_array # <<>>
    /\ Returns("AdjacencyArray::edge", AdjacencyArray_edge(adjacency_array[1], id))
AdjacencyArray_edge_start_call(id) ==
    /\ adjacency_array # <<>>
    /\ Returns("AdjacencyArray::edge_start",
               AdjacencyArray_edge_start(adjacency_array[1], id))
AdjacencyArray_edge_end_call(id) ==
    /\ adjacency_array # <<>>
    /\ Returns("AdjacencyArray::edge_end",
               AdjacencyArray_edge_end(adjacency_array[1], id))
AdjacencyArray_out_edges_call(id) ==
    /\ adjacency_array # <<>>
    /\ Returns("AdjacencyArray::out_edges",
               AdjacencyArray_out_edges(adjacency_array[1], id))

SimpleGraph_access ==
    \/ \E id \in NodeIdArgs : SimpleGraph_node_data_call(id)
    \/ \E id \in EdgeIdArgs :
           \/ SimpleGraph_edge_data_call(id)
           \/ SimpleGraph_edge_call(id)
           \/ SimpleGraph_edge_start_call(id)
           \/ SimpleGraph_edge_end_call(id)

AdjacencyArray_access ==
    \/ \E id \in NodeIdArgs :
           \/ AdjacencyArray_node_data_call(id)
           \/ AdjacencyArray_out_edges_call(id)
    \/ \E id \in EdgeIdArgs :
           \/ AdjacencyArray_edge_data_call(id)
           \/ AdjacencyArray_edge_call(id)
           \/ AdjacencyArray_edge_start_call(id)
           \/ AdjacencyArray_edge_end_call(id)

Next ==
    \/ \E data \in NodeData : add_node(data)
    \/ \E start \in NodeIdArgs, end \in NodeIdArgs, data \in EdgeData :
           add_edge(start, end, data)
    \/ from
    \/ SimpleGraph_access
    \/ AdjacencyArray_access

Spec == Init /\ [][Next]_vars

----------------------------------------------------------------------------
(* adjacencyarray/mod.rs: convert_from taken one loop iteration at a time.   *)
(* conversion.pc is the pass under way, conversion.i the number of items the *)
(* pass has visited, conversion.c the vectors, conversion.accumulator the    *)
(* local of prefix_sum. conversion.written (the edge slots written so far)   *)
(* and conversion.wrapped (an addition has wrapped) only record what the     *)
(* code did; no step reads them.                                             *)

\* ids a w-bit IdType reserves as the sentinel, for w in 1..IdBitsNarrow
IdBitsNarrow == 2
NarrowSentinels == {2 ^ w - 1 : w \in 1..IdBitsNarrow}

\* the edge-list graph is empty; IdType is narrow, and the build has overflow
\* checks or not
InitNarrow ==
    /\ nodes = <<>>
    /\ edges = <<>>
    /\ adjacency_array = <<>>
    /\ ret = NoCall
    /\ id_invalid \in NarrowSentinels
    /\ overflow_checks \in BOOLEAN
    /\ conversion = Idle

\* a + b exceeds IdType::max_value() and the build wraps it
AddWraps(a, b) == ~overflow_checks /\ a + b > id_invalid

\* an addition of the first loop's body wraps
CountWraps(c, id) ==
    LET edge == SimpleGraph_edge(id).val
        count_index == IdAdd(edge.start, 2)
    IN  \/ AddWraps(edge.start, 2)
        \/ /\ IsOk(count_index)
           /\ count_index.val < Len(c.first_out)
           /\ AddWraps(c.first_out[count_index.val + 1], 1)

\* the edge slot the second loop's body writes: <<edge_index>>, or <<>> when
\* it panics before the write
ScatterWrites(c, id) ==
    LET edge == SimpleGraph_edge(id).val
        node_index == IdAdd(edge.start, 1)
    IN  IF IsPanic(node_index) \/ ~(node_index.val < Len(c.first_out) - 1)
        THEN <<>>
        ELSE IF c.first_out[node_index.val + 1] < Len(c.edge_ends)
        THEN <<c.first_out[node_index.val + 1]>>
        ELSE <<>>

\* an addition of the second loop's body wraps
ScatterWraps(c, id) ==
    LET edge == SimpleGraph_edge(id).val
    IN  \/ AddWraps(edge.start, 1)
        \/ /\ ScatterWrites(c, id) # <<>>
           /\ AddWraps(ScatterWrites(c, id)[1], 1)

\* AdjacencyArray::from(&simple_graph) is called: the allocations
convert_from_begin ==
    /\ ~Panicked
    /\ conversion.pc = "idle"
    /\ conversion' = [Idle EXCEPT !.pc = "count", !.c = ConvertAlloc]
    /\ UNCHANGED <<nodes, edges, adjacency_array, ret, id_invalid, overflow_checks>>

\* the first loop: one edge, or the end of the loop
convert_from_count ==
    /\ conversion.pc = "count"
    /\ conversion.c.panic = ""
    /\ IF conversion.i < SimpleGraph_edge_len
       THEN LET id == SimpleGraph_edge_id_iter[conversion.i + 1]
            IN  conversion' =
                    [conversion EXCEPT !.c = CountStep(@, id),
                                       !.i = @ + 1,
                                       !.wrapped = @ \/ CountWraps(conversion.c, id)]
       ELSE conversion' = [conversion EXCEPT !.pc = "prefix_sum", !.i = 0,
                                             !.accumulator = 0]
    /\ UNCHANGED <<nodes, edges, adjacency_array, ret, id_invalid, overflow_checks>>

\* first_out.prefix_sum(): one item, or the end of the loop and the return of
\* EdgeId::new(accumulator)
convert_from_prefix_sum ==
    /\ conversion.pc = "prefix_sum"
    /\ conversion.c.panic = ""
    /\ IF conversion.i < Len(conversion.c.first_out)
       THEN LET st == PrefixSumStep([items |-> conversion.c.first_out,
                                     accumulator |-> conversion.accumulator,
                                     panic |-> ""], conversion.i)
            IN  conversion' =
                    [conversion EXCEPT
                         !.c = [@ EXCEPT !.first_out = st.items, !.panic = st.panic],
                         !.accumulator = st.accumulator,
                         !.i = @ + 1,
                         !.wrapped = @ \/ AddWraps(conversion.c.first_out[conversion.i + 1],
                                                   conversion.accumulator)]
       ELSE LET res == IdNew(conversion.accumulator, "Edge id out of bounds")
            IN  conversion' =
                    [conversion EXCEPT
                         !.c = [@ EXCEPT !.panic = IF IsPanic(res) THEN res.val ELSE ""],
                         !.pc = "scatter",
                         !.i = 0]
    /\ UNCHANGED <<nodes, edges, adjacency_array, ret, id_invalid, overflow_checks>>

\* the second loop: one edge, or the end of the loop
convert_from_scatter ==
    /\ conversion.pc = "scatter"
    /\ conversion.c.panic = ""
    /\ IF conversion.i < SimpleGraph_edge_len
       THEN LET id == SimpleGraph_edge_id_iter[conversion.i + 1]
            IN  conversion' =
                    [conversion EXCEPT
                         !.c = ScatterStep(@, id),
                         !.i = @ + 1,
                         !.written = @ \o ScatterWrites(conversion.c, id),
                         !.wrapped = @ \/ ScatterWraps(conversion.c, id)]
       ELSE conversion' = [conversion EXCEPT !.pc = "finish"]
    /\ UNCHANGED <<nodes, edges, adjacency_array, ret, id_invalid, overflow_checks>>

\* the call ends: first_out.pop() and the AdjacencyArray returned, or the
\* panic of one of the passes
convert_from_finish ==
    /\ conversion.pc # "idle"
    /\ conversion.pc = "finish" \/ conversion.c.panic # ""
    /\ LET res == ConvertFinish(conversion.c)
       IN  /\ adjacency_array' = IF IsOk(res) THEN <<res.val>> ELSE adjacency_array
           /\ ret' = [op |-> "from", res |-> IF IsOk(res) THEN Ok(<<>>) ELSE res]
    /\ conversion' = Idle
    /\ UNCHANGED <<nodes, edges, id_invalid, overflow_checks>>

\* the edge-list graph is built and converted; no call starts while a
\* conversion is under way
NextSteps ==
    \/ /\ conversion.pc = "idle"
       /\ \E data \in NodeData : add_node(data)
    \/ /\ conversion.pc = "idle"
       /\ \E start \in NodeIdArgs, end \in NodeIdArgs, data \in EdgeData :
              add_edge(start, end, data)
    \/ convert_from_begin
    \/ convert_from_count
    \/ convert_from_prefix_sum
    \/ convert_from_scatter
    \/ convert_from_finish

SpecNarrow == InitNarrow /\ [][NextSteps]_vars

----------------------------------------------------------------------------
(* Properties of the conversion *)

\* a conversion has produced an AdjacencyArray
Converted == adjacency_array # <<>>
\* the last call that changed anything was a conversion that returned: nodes
\* and edges are the source it converted
JustConverted == ret.op = "from" /\ IsOk(ret.res)
\* the AdjacencyArray (when Converted)
aa == adjacency_array[1]

NodeIds == 0..(SimpleGraph_node_len - 1)
EdgeIds == 0..(SimpleGraph_edge_len - 1)

\* C1: the first_out of a converted graph has length node_len + 1 (node_len
\* of the source), is non-decreasing, starts with 0 and ends with the source's
\* edge_len
C1_PartitionInvariant ==
    JustConverted =>
        /\ Len(aa.first_out) = SimpleGraph_node_len + 1
        /\ \A i \in 1..(Len(aa.first_out) - 1) : aa.first_out[i] <= aa.first_out[i + 1]
        /\ aa.first_out[1] = 0
        /\ aa.first_out[SimpleGraph_node_len + 1] = SimpleGraph_edge_len

\* a converted graph of two nodes with out-edges and a node without
C1_Witness ==
    /\ JustConverted
    /\ SimpleGraph_node_len = 2
    /\ SimpleGraph_edge_len = 2
    /\ aa.first_out = <<0, 0, 2>>

\* C2 as claimed: after conversion edge(e) and edge_data(e) of the
\* AdjacencyArray equal those of the SimpleGraph for every edge id e
C2_EdgeIdPreserved ==
    JustConverted =>
        \A e \in EdgeIds :
            /\ AdjacencyArray_edge(aa, e) = SimpleGraph_edge(e)
            /\ AdjacencyArray_edge_data(aa, e) = SimpleGraph_edge_data(e)

\* the id the source's edge e has after conversion: the number of source edges
\* that start at a smaller node, or at the same node and have a smaller id
ConvertedEdgeId(e) ==
    Cardinality({j \in EdgeIds :
        \/ edges[j + 1].start < edges[e + 1].start
        \/ edges[j + 1].start = edges[e + 1].start /\ j < e})

\* C2 amended: after conversion the source's edge e (start, end, payload) is
\* the AdjacencyArray's edge ConvertedEdgeId(e), with the same edge_data
C2_EdgePreservedUpToOrder ==
    JustConverted =>
        \A e \in EdgeIds :
            /\ AdjacencyArray_edge(aa, ConvertedEdgeId(e)) = SimpleGraph_edge(e)
            /\ AdjacencyArray_edge_data(aa, ConvertedEdgeId(e)) = SimpleGraph_edge_data(e)

\* a converted graph whose edges were added in descending order of start node
\* and carry different payloads
C2_Witness ==
    /\ JustConverted
    /\ SimpleGraph_edge_len = 2
    /\ edges[1].start > edges[2].start
    /\ edges[1].data # edges[2].data
    /\ ConvertedEdgeId(0) = 1

\* the edge ids out_edges(n) yields, as a set (n a valid node id)
OutEdgeSet(a, n) ==
    LET out == AdjacencyArray_out_edges(a, n).val
    IN  {out[i] : i \in 1..Len(out)}

\* C3: in a converted graph, out_edges(n) yields exactly the edge ids e with
\* edge_start(e) = n, and edge_start(e) is the one i with
\* first_out[i] <= e < first_out[i+1]
C3_OutEdgeCorrectness ==
    Converted =>
        /\ \A n \in 0..(AdjacencyArray_node_len(aa) - 1) :
               /\ IsOk(AdjacencyArray_out_edges(aa, n))
               /\ OutEdgeSet(aa, n) =
                      {e \in 0..(AdjacencyArray_edge_len(aa) - 1) :
                           AdjacencyArray_edge_start(aa, e) = Ok(n)}
        /\ \A e \in 0..(AdjacencyArray_edge_len(aa) - 1) :
               /\ IsOk(AdjacencyArray_edge_start(aa, e))
               /\ \A i \in 0..(AdjacencyArray_node_len(aa) - 1) :
                      (aa.first_out[i + 1] <= e /\ e < aa.first_out[i + 2])
                          <=> AdjacencyArray_edge_start(aa, e).val = i

\* a converted graph where nodes 0 and 1 have no out-edges and node 2 has one:
\* first_out holds equal consecutive offsets
C3_Witness ==
    /\ Converted
    /\ aa.first_out = <<0, 0, 0, 1>>
    /\ AdjacencyArray_edge_start(aa, 0) = Ok(2)

\* the source's edges that start at node n, in insertion order
EdgesFrom(n) == SelectSeq(edges, LAMBDA edge : edge.start = n)

\* the edges out_edges(n) yields, each mapped through edge()
OutEdges(a, n) ==
    LET out == AdjacencyArray_out_edges(a, n).val
    IN  [i \in 1..Len(out) |-> AdjacencyArray_edge(a, out[i])]

\* C4: for every node n the (start, end, payload) of the out_edges(n) of the
\* converted graph are the source's edges that start at n, in insertion order
C4_Stability ==
    JustConverted =>
        \A n \in NodeIds :
            OutEdges(aa, n) = [i \in 1..Len(EdgesFrom(n)) |-> Ok(EdgesFrom(n)[i])]

\* a converted graph with two different edges starting at the same node
C4_Witness ==
    /\ JustConverted
    /\ SimpleGraph_edge_len = 2
    /\ edges[1].start = edges[2].start
    /\ edges[1] # edges[2]
    /\ Len(OutEdges(aa, edges[1].start)) = 2

\* C5: the converted graph has the node_len and edge_len of the source, its
\* node_id_iter and edge_id_iter yield the same ids in the same order, and
\* node_data(id) is equal in both for every node id
C5_IdPreservation ==
    JustConverted =>
        /\ AdjacencyArray_node_len(aa) = SimpleGraph_node_len
        /\ AdjacencyArray_edge_len(aa) = SimpleGraph_edge_len
        /\ AdjacencyArray_node_id_iter(aa) = SimpleGraph_node_id_iter
        /\ AdjacencyArray_edge_id_iter(aa) = SimpleGraph_edge_id_iter
        /\ \A id \in NodeIds :
               AdjacencyArray_node_data(aa, id) = SimpleGraph_node_data(id)

\* a converted graph of two nodes with different payloads and an edge
C5_Witness ==
    /\ JustConverted
    /\ SimpleGraph_node_len = 2
    /\ nodes[1] # nodes[2]
    /\ SimpleGraph_edge_len >= 1
    /\ AdjacencyArray_node_data(aa, 1) = Ok(nodes[2])

----------------------------------------------------------------------------
(* Properties of the SimpleGraph and of the accessors *)

\* id is the sentinel or not the id of a node of the SimpleGraph
NoSuchNode(id) == id = id_invalid \/ id >= Len(nodes)
\* id is the sentinel or not the id of an edge of the SimpleGraph
NoSuchEdge(id) == id = id_invalid \/ id >= Len(edges)

\* C6: add_edge with a start that is the sentinel or >= node_len returns
\* StartNodeDoesNotExist whatever the end is, with an existing start and an end
\* that is the sentinel or >= node_len it returns EndNodeDoesNotExist, and a
\* call that returns either error leaves nodes and edges unchanged
C6_RejectedAddEdge ==
    /\ [](\A start \in NodeIdArgs, end \in NodeIdArgs :
              /\ NoSuchNode(start) =>
                     add_edge_result(start, end) = Err("StartNodeDoesNotExist")
              /\ (~NoSuchNode(start) /\ NoSuchNode(end)) =>
                     add_edge_result(start, end) = Err("EndNodeDoesNotExist"))
    /\ [][(ret'.op = "add_edge" /\ ret'.res.kind = "err")
              => UNCHANGED <<nodes, edges>>]_vars

\* add_edge has been rejected for its end node on a graph with nodes and edges
C6_Witness ==
    /\ ret = [op |-> "add_edge", res |-> Err("EndNodeDoesNotExist")]
    /\ Len(nodes) >= 1
    /\ Len(edges) >= 1

\* C7: add_node returns the node_len before the call and a successful add_edge
\* the edge_len before the call; node_data and edge of the returned id give
\* what was inserted, those of the earlier ids do not change, and the id
\* iterators yield 0 .. len - 1 in ascending order
C7_SequentialIds ==
    /\ [](/\ (ret.op = "add_node" /\ ~Panicked) => ret.res = Ok(Len(nodes) - 1)
          /\ (ret.op = "add_edge" /\ IsOk(ret.res)) => ret.res = Ok(Len(edges) - 1)
          /\ Len(SimpleGraph_node_id_iter) = SimpleGraph_node_len
          /\ Len(SimpleGraph_edge_id_iter) = SimpleGraph_edge_len
          /\ \A i \in 1..SimpleGraph_node_len : SimpleGraph_node_id_iter[i] = i - 1
          /\ \A i \in 1..SimpleGraph_edge_len : SimpleGraph_edge_id_iter[i] = i - 1)
    /\ [][/\ nodes' # nodes =>
                 \A data \in NodeData, id \in {Len(nodes)} :
                     add_node(data) =>
                         /\ ret'.res = Ok(id)
                         /\ SimpleGraph_node_data(id)' = Ok(data)
          /\ edges' # edges =>
                 \A start \in NodeIdArgs, end \in NodeIdArgs, data \in EdgeData,
                    id \in {Len(edges)} :
                     add_edge(start, end, data) =>
                         /\ ret'.res = Ok(id)
                         /\ SimpleGraph_edge(id)' =
                                Ok([start |-> start, end |-> end, data |-> data])
          /\ \A id \in NodeIds : SimpleGraph_node_data(id)' = SimpleGraph_node_data(id)
          /\ \A id \in EdgeIds : SimpleGraph_edge(id)' = SimpleGraph_edge(id)]_vars

\* the second edge has been added to a graph of two nodes and got id 1
C7_Witness ==
    /\ ret = [op |-> "add_edge", res |-> Ok(1)]
    /\ Len(nodes) = 2
    /\ Len(edges) = 2
    /\ SimpleGraph_edge(1) = Ok(edges[2])

NodeAssertion == Panic("assertion failed: self.is_node_id_valid(id)")
EdgeAssertion == Panic("assertion failed: self.is_edge_id_valid(id)")

\* C8: on the SimpleGraph and on the AdjacencyArray, node_data with a node id
\* that is the sentinel or >= node_len fails its assertion, and so do
\* edge_data, edge, edge_start and edge_end with an edge id that is the
\* sentinel or >= edge_len
C8_InvalidIdFails ==
    /\ \A id \in NodeIdArgs :
           NoSuchNode(id) => SimpleGraph_node_data(id) = NodeAssertion
    /\ \A id \in EdgeIdArgs :
           NoSuchEdge(id) =>
               /\ SimpleGraph_edge_data(id) = EdgeAssertion
               /\ SimpleGraph_edge(id) = EdgeAssertion
               /\ SimpleGraph_edge_start(id) = EdgeAssertion
               /\ SimpleGraph_edge_end(id) = EdgeAssertion
    /\ Converted =>
           /\ \A id \in NodeIdArgs :
                  (id = id_invalid \/ id >= AdjacencyArray_node_len(aa)) =>
                      AdjacencyArray_node_data(aa, id) = NodeAssertion
           /\ \A id \in EdgeIdArgs :
                  (id = id_invalid \/ id >= AdjacencyArray_edge_len(aa)) =>
                      /\ AdjacencyArray_edge_data(aa, id) = EdgeAssertion
                      /\ AdjacencyArray_edge(aa, id) = EdgeAssertion
                      /\ AdjacencyArray_edge_start(aa, id) = EdgeAssertion
                      /\ AdjacencyArray_edge_end(aa, id) = EdgeAssertion

\* node_data of the AdjacencyArray of a graph with nodes has been called with
\* an invalid id and has panicked
C8_Witness ==
    /\ Converted
    /\ AdjacencyArray_node_len(aa) >= 1
    /\ ret = [op |-> "AdjacencyArray::node_data", res |-> NodeAssertion]

\* C9: add_node and add_edge on the source leave the AdjacencyArray unchanged,
\* and the conversion leaves the nodes and edges of the source unchanged
\* (stated by contraposition: a step that changes the AdjacencyArray is no
\* add_node or add_edge, a step that changes nodes or edges is no conversion)
C9_Independence ==
    [][/\ adjacency_array' # adjacency_array =>
              /\ ~ \E data \in NodeData : add_node(data)
              /\ ~ \E start \in NodeIdArgs, end \in NodeIdArgs, data \in EdgeData :
                       add_edge(start, end, data)
       /\ (nodes' # nodes \/ edges' # edges) => ~from]_vars

\* a node and an edge have been added to the source after the conversion
C9_Witness ==
    /\ Converted
    /\ ret.op \in {"add_node", "add_edge"}
    /\ IsOk(ret.res)
    /\ Len(nodes) > AdjacencyArray_node_len(aa)
    /\ Len(edges) > AdjacencyArray_edge_len(aa)
    /\ Len(aa.node_data) = AdjacencyArray_node_len(aa)

\* C10: the conversion of a graph without edges (with or without nodes) does
\* not fail; first_out has node_len + 1 entries, all 0, and the converted
\* graph has the node_len of the source and edge_len 0
C10_DegenerateGraphs ==
    (ret.op = "from" /\ edges = <<>>) =>
        /\ IsOk(ret.res)
        /\ Converted
        /\ aa.first_out = [i \in 1..(SimpleGraph_node_len + 1) |-> 0]
        /\ Len(aa.first_out) >= 1
        /\ AdjacencyArray_node_len(aa) = SimpleGraph_node_len
        /\ AdjacencyArray_edge_len(aa) = 0

\* the empty graph has been converted
C10_Witness ==
    /\ JustConverted
    /\ nodes = <<>>
    /\ edges = <<>>
    /\ aa.first_out = <<0>>

----------------------------------------------------------------------------
(* Conversion with a narrow IdType *)

\* first_out partitions the edge slots: node_len + 1 offsets, non-decreasing,
\* from 0 to edge_len
PartitionInvariant(a) ==
    /\ Len(a.first_out) = SimpleGraph_node_len + 1
    /\ Len(a.edge_ends) = SimpleGraph_edge_len
    /\ Len(a.edge_data) = SimpleGraph_edge_len
    /\ \A i \in 1..(Len(a.first_out) - 1) : a.first_out[i] <= a.first_out[i + 1]
    /\ a.first_out[1] = 0
    /\ a.first_out[SimpleGraph_node_len + 1] = SimpleGraph_edge_len

\* the slots first_out[n] .. first_out[n+1] - 1 hold the source's edges that
\* start at n
StartNodeInvariant(a) ==
    \A n \in NodeIds :
        [k \in 1..(a.first_out[n + 2] - a.first_out[n + 1]) |->
             [start |-> n,
              end |-> a.edge_ends[a.first_out[n + 1] + k],
              data |-> a.edge_data[a.first_out[n + 1] + k]]] = EdgesFrom(n)

\* a conversion that returned an AdjacencyArray returned a valid one
C11_NoInvalidGraph ==
    JustConverted => PartitionInvariant(aa) /\ StartNodeInvariant(aa)

\* C11: with a w-bit IdType a conversion either returns an AdjacencyArray that
\* satisfies the partition and the start-node invariant or panics, and no
\* addition of its passes wraps
C11_NoSilentWrap ==
    /\ JustConverted => PartitionInvariant(aa) /\ StartNodeInvariant(aa)
    /\ ~conversion.wrapped

----------------------------------------------------------------------------
(* The edges the edge-list graph stores *)

\* C12: in every reachable state every stored edge has a start and an end
\* that are not the sentinel and are less than node_len
C12_StoredEdgesValid ==
    \A i \in 1..Len(edges) :
        /\ edges[i].start # id_invalid
        /\ edges[i].start < SimpleGraph_node_len
        /\ edges[i].end # id_invalid
        /\ edges[i].end < SimpleGraph_node_len

\* edges to and from the last node are stored, and the last add_edge was
\* rejected
C12_Witness ==
    /\ ret.op = "add_edge"
    /\ ret.res.kind = "err"
    /\ Len(edges) = 2
    /\ edges[1].end = SimpleGraph_node_len - 1
    /\ edges[2].start = SimpleGraph_node_len - 1

----------------------------------------------------------------------------
(* The passes of the conversion *)

\* the counters of the conversion under way (first_out before the pop)
counts == conversion.c.first_out
\* the number of edges of the source that start at n
OutDegree(n) == Cardinality({e \in 1..Len(edges) : edges[e].start = n})
\* the number of edges of the source that start at a node before n
FirstSlot(n) == Cardinality({e \in 1..Len(edges) : edges[e].start < n})
\* the number of edges starting at n that the pass under way has visited
Visited(n) == Cardinality({e \in 1..conversion.i : edges[e].start = n})

\* the first loop has ended
AfterCountPass == conversion.pc = "prefix_sum" /\ conversion.i = 0
\* prefix_sum has returned
AfterPrefixSumPass ==
    conversion.pc = "scatter" /\ conversion.i = 0 /\ conversion.c.panic = ""
\* the second loop is under way or has just ended
InScatterPass == conversion.pc = "scatter" /\ conversion.c.panic = ""

\* C13: after the count pass counts[0] = counts[1] = 0 and counts[i+2] is the
\* out-degree of node i; after the prefix-sum pass counts[i+1] is the number
\* of edges that start before node i; during the scatter pass the cursor
\* counts[i+1] is the first slot of node i plus the number of its edges
\* already placed (so it only grows and stays in the slot range of node i),
\* and no edge slot is written twice
C13_PassInvariants ==
    /\ AfterCountPass =>
           /\ counts[1] = 0
           /\ counts[2] = 0
           /\ \A n \in NodeIds : counts[n + 3] = OutDegree(n)
    /\ AfterPrefixSumPass =>
           \A n \in NodeIds : counts[n + 2] = FirstSlot(n)
    /\ InScatterPass =>
           /\ \A n \in NodeIds :
                  /\ counts[n + 2] = FirstSlot(n) + Visited(n)
                  /\ counts[n + 2] <= FirstSlot(n) + OutDegree(n)
           /\ Len(conversion.written) = conversion.i
           /\ \A j, k \in 1..Len(conversion.written) :
                  j # k => conversion.written[j] # conversion.written[k]

\* the pass invariants hold in every conversion in which no addition wraps
C13_PassInvariantsUnlessWrapped == conversion.wrapped \/ C13_PassInvariants

----------------------------------------------------------------------------
(* Conversion at the capacity of IdType *)

\* an edge starts at the node id IdType::max_value() - 1
EdgeFromTopNode == \E e \in 1..Len(edges) : edges[e].start + 2 > id_invalid
\* the graph has IdType::max_value() edges
EdgesAtCapacity == SimpleGraph_edge_len = id_invalid

\* C14: with a w-bit IdType the conversion of every graph that add_node and
\* add_edge have built returns an AdjacencyArray, also when node_len or
\* edge_len is 2^w - 1
C14_ConversionCompletes == ret.op = "from" => IsOk(ret.res)

\* the conversion completes when no edge starts at the highest node id that
\* IdType can hold
C14_CompletesWithoutTopEdge ==
    (ret.op = "from" /\ ~EdgeFromTopNode) => IsOk(ret.res)

\* the conversion completes exactly when no edge starts at the node id
\* 2^w - 2 and the graph has fewer than 2^w - 1 edges
C14_CompletesBelowCapacity ==
    ret.op = "from" => (IsOk(ret.res) <=> ~EdgeFromTopNode /\ ~EdgesAtCapacity)

----------------------------------------------------------------------------
(* The conversion in steps and the conversion in one step *)

\* when the steps of a conversion end, they end with what convert_from gives
StepsAgree ==
    (conversion.pc # "idle" /\ (conversion.pc = "finish" \/ conversion.c.panic # ""))
        => ConvertFinish(conversion.c) = convert_from

====
